---- MODULE Spec2Model ----
(***************************************************************************)
(* PlayerTracker (Trackers/player_tracker.py): per-frame detection,        *)
(* batch detection with a pickle stub, and selection of the two players.   *)
(*                                                                         *)
(* A Python dict is an insertion-ordered sequence of <<key, value>> pairs  *)
(* with unique keys; a Python list is a sequence; None for box.id is the   *)
(* empty sequence (box.id.tolist() is a one-element list otherwise).       *)
(***************************************************************************)
EXTENDS Integers, Sequences, FiniteSets, TLC

VARIABLES
    op,                          \* the method being run
    pc,                          \* position / outcome of the running call
    frames,                      \* detect_frames: the frames argument
    read_from_stub,              \* detect_frames: the read_from_stub argument
    stub_path,                   \* detect_frames: the stub_path argument
    player_detections,           \* detect_frames: list under construction;
                                 \* choose_and_filter_players: its argument
    frame_iter,                  \* detect_frames: frames the for loop has consumed
    invoked,                     \* frame indices detect_frame was called on, in call order
    ret,                         \* value returned by the call (when pc = "returned")
    stub_files,                  \* the file system: stub path -> file
    last_computed,               \* per path: sequence returned by the latest computing call that wrote it
    results,                     \* detect_frame: self.model.track(frame)[0].boxes
    court_keypoints,             \* choose_players / choose_and_filter_players argument
    player_detections_dict,      \* choose_players argument
    chosen_players               \* choose_and_filter_players: local chosen_players

vars == <<op, pc, frames, read_from_stub, stub_path, player_detections, frame_iter, invoked, ret,
          stub_files, last_computed, results, court_keypoints,
          player_detections_dict, chosen_players>>

---------------------------------------------------------------------------
(* Bounds *)

MaxBoxes == 2        \* boxes the model reports for one frame (detect_frame alone)
MaxFrames == 2       \* frames in one call
MaxKeypoints == 4    \* coordinates in court_keypoints

---------------------------------------------------------------------------
(* Values *)

TrackIds == {1, 2, 3}

BBoxes == {<<0, 0, 10, 10>>, <<100, 100, 110, 110>>}

\* results.names restricted to the classes of the sample frames (COCO ids)
id_name_dict == (0 :> "person") @@ (32 :> "sports ball")

None == <<>>

Range(s) == {s[k] : k \in 1..Len(s)}

SeqsUpTo(S, n) == UNION {[1..k -> S] : k \in 0..n}

---------------------------------------------------------------------------
(* dict *)

DictKeys(d) == {d[k][1] : k \in 1..Len(d)}

DictGet(d, key) == d[CHOOSE k \in 1..Len(d) : d[k][1] = key][2]

\* d[key] = value: an existing key keeps its position, a new key goes last
DictSet(d, key, value) ==
    IF key \in DictKeys(d)
    THEN [k \in 1..Len(d) |-> IF d[k][1] = key THEN <<key, value>> ELSE d[k]]
    ELSE Append(d, <<key, value>>)

IsDict(d) == \A a, b \in 1..Len(d) : d[a][1] = d[b][1] => a = b

---------------------------------------------------------------------------
(* detect_frame *)

Boxes == [id : {None} \cup {<<t>> : t \in TrackIds}, cls : DOMAIN id_name_dict, xyxy : BBoxes]

\* the tracker gives the boxes of one frame distinct identities
ModelOutputs ==
    {bs \in SeqsUpTo(Boxes, MaxBoxes) :
        \A a, b \in 1..Len(bs) : (bs[a].id # None /\ bs[a].id = bs[b].id) => a = b}

RECURSIVE detect_frame_loop(_, _, _)
detect_frame_loop(boxes, k, dict) ==
    IF k > Len(boxes) THEN [raised |-> FALSE, value |-> dict]
    ELSE IF boxes[k].id = None THEN [raised |-> TRUE, value |-> <<>>]
    ELSE LET track_id == boxes[k].id[1]
             result == boxes[k].xyxy
             object_cls_name == id_name_dict[boxes[k].cls]
         IN  IF object_cls_name = "person"
             THEN detect_frame_loop(boxes, k + 1, DictSet(dict, track_id, result))
             ELSE detect_frame_loop(boxes, k + 1, dict)

detect_frame(boxes) == detect_frame_loop(boxes, 1, <<>>)

---------------------------------------------------------------------------
(* pickle: the stub file holds an opcode stream *)

Tok(o, a) == [op |-> o, arg |-> a]

RECURSIVE Flatten(_)
Flatten(ss) == IF ss = <<>> THEN <<>> ELSE Head(ss) \o Flatten(Tail(ss))

\* mutant of batch: several items are stored without the opening MARK
batch_without_mark(items, one, many) ==
    IF Len(items) = 0 THEN <<>>
    ELSE IF Len(items) = 1 THEN items[1] \o <<Tok(one, 0)>>
    ELSE Flatten(items) \o <<Tok(many, 0)>>

\* pickle batches the items of a container: one item is stored by itself,
\* several between a MARK and the plural opcode
batch(items, one, many) ==
    IF Len(items) = 0 THEN <<>>
    ELSE IF Len(items) = 1 THEN items[1] \o <<Tok(one, 0)>>
    ELSE <<Tok("MARK", 0)>> \o Flatten(items) \o <<Tok(many, 0)>>

save_bbox(bbox) ==
    <<Tok("EMPTY_LIST", 0)>>
    \o batch([k \in 1..Len(bbox) |-> <<Tok("BINFLOAT", bbox[k])>>], "APPEND", "APPENDS")

save_dict(d) ==
    <<Tok("EMPTY_DICT", 0)>>
    \o batch([k \in 1..Len(d) |-> <<Tok("BININT", d[k][1])>> \o save_bbox(d[k][2])],
             "SETITEM", "SETITEMS")

pickle_dump(obj) ==
    <<Tok("EMPTY_LIST", 0)>>
    \o batch([k \in 1..Len(obj) |-> save_dict(obj[k])], "APPEND", "APPENDS")
    \o <<Tok("STOP", 0)>>

\* the unpickler's stack holds objects and marks
Obj(x) == [mark |-> FALSE, v |-> x]
Mark == [mark |-> TRUE, v |-> <<>>]

LastMark(stack) ==
    IF \E k \in 1..Len(stack) : stack[k].mark
    THEN CHOOSE k \in 1..Len(stack) :
            stack[k].mark /\ \A j \in (k + 1)..Len(stack) : ~stack[j].mark
    ELSE 0

RECURSIVE SetItems(_, _, _)
SetItems(d, items, k) ==
    IF k + 1 > Len(items) THEN d
    ELSE SetItems(DictSet(d, items[k].v, items[k + 1].v), items, k + 2)

Failed == [raised |-> TRUE, value |-> <<>>]

RECURSIVE load_loop(_, _, _)
load_loop(stream, k, stack) ==
    IF k > Len(stream) THEN Failed                                \* EOFError
    ELSE LET opcode == stream[k].op
             n == Len(stack)
             m == LastMark(stack)
             SetTop(st, x) == [st EXCEPT ![Len(st)] = Obj(x)]
         IN
         CASE opcode = "STOP" ->
                IF n >= 1 /\ ~stack[n].mark
                THEN [raised |-> FALSE, value |-> stack[n].v] ELSE Failed
           [] opcode \in {"EMPTY_LIST", "EMPTY_DICT"} ->
                load_loop(stream, k + 1, Append(stack, Obj(<<>>)))
           [] opcode \in {"BININT", "BINFLOAT"} ->
                load_loop(stream, k + 1, Append(stack, Obj(stream[k].arg)))
           [] opcode = "MARK" ->
                load_loop(stream, k + 1, Append(stack, Mark))
           [] opcode = "APPEND" ->
                IF n >= 2 /\ m < n - 1
                THEN load_loop(stream, k + 1,
                               SetTop(SubSeq(stack, 1, n - 1),
                                      Append(stack[n - 1].v, stack[n].v)))
                ELSE Failed
           [] opcode = "APPENDS" ->
                IF m >= 2 /\ ~stack[m - 1].mark
                THEN load_loop(stream, k + 1,
                               SetTop(SubSeq(stack, 1, m - 1),
                                      stack[m - 1].v
                                      \o [j \in 1..(n - m) |-> stack[m + j].v]))
                ELSE Failed
           [] opcode = "SETITEM" ->
                IF n >= 3 /\ m < n - 2
                THEN load_loop(stream, k + 1,
                               SetTop(SubSeq(stack, 1, n - 2),
                                      DictSet(stack[n - 2].v, stack[n - 1].v, stack[n].v)))
                ELSE Failed
           [] opcode = "SETITEMS" ->
                IF m >= 2 /\ ~stack[m - 1].mark
                THEN load_loop(stream, k + 1,
                               SetTop(SubSeq(stack, 1, m - 1),
                                      SetItems(stack[m - 1].v, SubSeq(stack, m + 1, n), 1)))
                ELSE Failed
           [] OTHER -> Failed                                     \* UnpicklingError

pickle_load(stream) == load_loop(stream, 1, <<>>)

\* a file of the file system
File(e, data) == [exists |-> e, data |-> data]
Absent == File(FALSE, <<>>)
Empty == File(TRUE, <<>>)      \* exists, holds no pickle

---------------------------------------------------------------------------
(* detect_frames *)

\* A frame is represented by the boxes self.model.track reports for it.
FramePlayer == <<[id |-> <<1>>, cls |-> 0, xyxy |-> <<0, 0, 10, 10>>]>>
FrameBallAndPlayer ==
    <<[id |-> <<3>>, cls |-> 32, xyxy |-> <<0, 0, 10, 10>>],
      [id |-> <<2>>, cls |-> 0, xyxy |-> <<100, 100, 110, 110>>]>>
FrameUntracked == <<[id |-> None, cls |-> 0, xyxy |-> <<0, 0, 10, 10>>]>>

SampleFrames == {FramePlayer, FrameBallAndPlayer, FrameUntracked}

StubPaths == {"p1", "p2"}
NoPath == "None"

NotComputed == [set |-> FALSE, value |-> <<>>]

selectIdle ==
    /\ results = <<>>
    /\ court_keypoints = <<>>
    /\ player_detections_dict = <<>>
    /\ chosen_players = <<>>

Init ==
    /\ op = "detect_frames"
    /\ pc = "idle"
    /\ frames = <<>>
    /\ read_from_stub = FALSE
    /\ stub_path = NoPath
    /\ player_detections = <<>>
    /\ frame_iter = 0
    /\ invoked = <<>>
    /\ ret = <<>>
    /\ stub_files \in [StubPaths -> {Absent, Empty}]
    /\ last_computed = [p \in StubPaths |-> NotComputed]
    /\ selectIdle

\* mutant of detect_frames_call: a stub that cannot be read falls back to computing
detect_frames_call_fallback(f, r, p) ==
    /\ pc = "idle"
    /\ frames' = f
    /\ read_from_stub' = r
    /\ stub_path' = p
    /\ frame_iter' = 0
    /\ invoked' = <<>>
    /\ IF r /\ p # NoPath /\ stub_files[p].exists /\ ~pickle_load(stub_files[p].data).raised
       THEN /\ pc' = "returned"
            /\ player_detections' = pickle_load(stub_files[p].data).value
            /\ ret' = pickle_load(stub_files[p].data).value
       ELSE /\ pc' = "loop"
            /\ player_detections' = <<>>
            /\ ret' = <<>>
    /\ UNCHANGED <<op, stub_files, last_computed, results, court_keypoints,
                   player_detections_dict, chosen_players>>

\* lines 41-57: entry; the stub is read and returned, or the loop is set up
detect_frames_call(f, r, p) ==
    /\ pc = "idle"
    /\ frames' = f
    /\ read_from_stub' = r
    /\ stub_path' = p
    /\ frame_iter' = 0
    /\ invoked' = <<>>
    /\ IF r /\ p # NoPath
       THEN IF ~stub_files[p].exists
            THEN /\ pc' = "raised"                          \* open(): FileNotFoundError
                 /\ player_detections' = <<>>
                 /\ ret' = <<>>
            ELSE LET loaded == pickle_load(stub_files[p].data)
                 IN  IF loaded.raised
                     THEN /\ pc' = "raised"
                          /\ player_detections' = <<>>
                          /\ ret' = <<>>
                     ELSE /\ pc' = "returned"
                          /\ player_detections' = loaded.value
                          /\ ret' = loaded.value
       ELSE /\ pc' = "loop"
            /\ player_detections' = <<>>
            /\ ret' = <<>>
    /\ UNCHANGED <<op, stub_files, last_computed, results, court_keypoints,
                   player_detections_dict, chosen_players>>

\* mutant of detect_frames_step: the new detection set goes to the front of the list
detect_frames_step_prepend ==
    /\ pc = "loop"
    /\ frame_iter < Len(frames)
    /\ LET i == frame_iter + 1
           player_dict == detect_frame(frames[i])
       IN  /\ frame_iter' = i
           /\ invoked' = Append(invoked, i)
           /\ IF player_dict.raised
              THEN /\ pc' = "raised"
                   /\ UNCHANGED player_detections
              ELSE /\ pc' = "loop"
                   /\ player_detections' = <<player_dict.value>> \o player_detections
    /\ UNCHANGED <<op, frames, read_from_stub, stub_path, ret, stub_files, last_computed,
                   results, court_keypoints, player_detections_dict, chosen_players>>

\* lines 60-62: one iteration of the for loop
detect_frames_step ==
    /\ pc = "loop"
    /\ frame_iter < Len(frames)
    /\ LET i == frame_iter + 1
           player_dict == detect_frame(frames[i])
       IN  /\ frame_iter' = i
           /\ invoked' = Append(invoked, i)
           /\ IF player_dict.raised
              THEN /\ pc' = "raised"
                   /\ UNCHANGED player_detections
              ELSE /\ pc' = "loop"
                   /\ player_detections' = Append(player_detections, player_dict.value)
    /\ UNCHANGED <<op, frames, read_from_stub, stub_path, ret, stub_files, last_computed,
                   results, court_keypoints, player_detections_dict, chosen_players>>

\* mutant of detect_frames_finish: an existing stub is kept ("saved in the first run")
detect_frames_finish_first_run_only ==
    /\ pc = "loop"
    /\ frame_iter = Len(frames)
    /\ IF stub_path # NoPath /\ ~stub_files[stub_path].exists
       THEN /\ stub_files' = [stub_files EXCEPT
                                 ![stub_path] = File(TRUE, pickle_dump(player_detections))]
            /\ last_computed' = [last_computed EXCEPT
                                 ![stub_path] = [set |-> TRUE, value |-> player_detections]]
       ELSE UNCHANGED <<stub_files, last_computed>>
    /\ ret' = player_detections
    /\ pc' = "returned"
    /\ UNCHANGED <<op, frames, read_from_stub, stub_path, player_detections, frame_iter,
                   invoked, results, court_keypoints, player_detections_dict,
                   chosen_players>>

\* mutant of detect_frames_finish: the dump and the return sit inside the loop
detect_frames_finish_in_loop ==
    /\ pc = "loop"
    /\ frame_iter >= 1 \/ Len(frames) = 0
    /\ IF stub_path # NoPath
       THEN /\ stub_files' = [stub_files EXCEPT
                                 ![stub_path] = File(TRUE, pickle_dump(player_detections))]
            /\ last_computed' = [last_computed EXCEPT
                                 ![stub_path] = [set |-> TRUE, value |-> player_detections]]
       ELSE UNCHANGED <<stub_files, last_computed>>
    /\ ret' = player_detections
    /\ pc' = "returned"
    /\ UNCHANGED <<op, frames, read_from_stub, stub_path, player_detections, frame_iter,
                   invoked, results, court_keypoints, player_detections_dict,
                   chosen_players>>

\* lines 64-68: the loop is exhausted; dump to the stub when a path is given, return
detect_frames_finish ==
    /\ pc = "loop"
    /\ frame_iter = Len(frames)
    /\ IF stub_path # NoPath
       THEN /\ stub_files' = [stub_files EXCEPT
                                 ![stub_path] = File(TRUE, pickle_dump(player_detections))]
            /\ last_computed' = [last_computed EXCEPT
                                 ![stub_path] = [set |-> TRUE, value |-> player_detections]]
       ELSE UNCHANGED <<stub_files, last_computed>>
    /\ ret' = player_detections
    /\ pc' = "returned"
    /\ UNCHANGED <<op, frames, read_from_stub, stub_path, player_detections, frame_iter,
                   invoked, results, court_keypoints, player_detections_dict,
                   chosen_players>>

\* lines 57, 68 and a propagating exception: the call is over, its locals are gone
detect_frames_exit ==
    /\ pc \in {"returned", "raised"}
    /\ pc' = "idle"
    /\ frames' = <<>>
    /\ read_from_stub' = FALSE
    /\ stub_path' = NoPath
    /\ player_detections' = <<>>
    /\ frame_iter' = 0
    /\ invoked' = <<>>
    /\ ret' = <<>>
    /\ UNCHANGED <<op, stub_files, last_computed, results, court_keypoints,
                   player_detections_dict, chosen_players>>

detect_frames ==
    \E f \in SeqsUpTo(SampleFrames, MaxFrames), r \in BOOLEAN, p \in StubPaths \cup {NoPath} :
        detect_frames_call(f, r, p)

Next ==
    \/ detect_frames
    \/ detect_frames_step
    \/ detect_frames_finish
    \/ detect_frames_exit

Spec == Init /\ [][Next]_vars

---------------------------------------------------------------------------
(* Properties of detect_frames *)

ReadPath == read_from_stub /\ stub_path # NoPath

UpTo(n) == [k \in 1..n |-> k]

IsPerson(box) == id_name_dict[box.cls] = "person"

\* the detection set of a frame: its person boxes, keyed by their track identity
PersonsOf(frame) ==
    LET persons == SelectSeq(frame, IsPerson)
    IN  [k \in 1..Len(persons) |-> <<persons[k].id[1], persons[k].xyxy>>]

Aligned == /\ Len(ret) = Len(frames)
           /\ \A i \in 1..Len(frames) : ret[i] = PersonsOf(frames[i])

\* C2 as stated: every call that returns, whatever the caching configuration,
\* returns one detection set per input frame, element i being that of frame i.
C2_original == pc = "returned" => Aligned

\* C2 amended: a call that does not take the stub-read path and returns, returns
\* exactly one detection set per input frame, element i being that of frame i.
C2_theorem == (pc = "returned" /\ ~ReadPath) => Aligned

C2_witness ==
    /\ pc = "returned" /\ ~ReadPath
    /\ Len(frames) = 2 /\ frames[1] # frames[2] /\ ret[1] # ret[2]

\* C3: a call with read_from_stub true and a stub_path never invokes detect_frame
\* and never writes a stub; it returns the stored sequence when the stub holds one
\* and ends in an error when the stub is absent or holds no pickle.
C3_theorem ==
    [][ReadPath' =>
          /\ invoked' = <<>>
          /\ pc' \in {"returned", "raised"}
          /\ stub_files' = stub_files
          /\ last_computed[stub_path'].set =>
                (pc' = "returned" /\ ret' = last_computed[stub_path'].value)
          /\ stub_files[stub_path'] \in {Absent, Empty} => pc' = "raised"]_vars

C3_witness ==
    /\ pc = "raised" /\ ReadPath
    /\ stub_files[stub_path] = Absent
    /\ Len(frames) = 2
    /\ \E p \in StubPaths : last_computed[p].set

\* C4: the stub written by a computing call holds the sequence that call returned,
\* and a later call reading the same path returns that sequence, whatever its frames.
C4_theorem ==
    /\ \A p \in StubPaths :
          last_computed[p].set =>
             /\ stub_files[p].exists
             /\ pickle_load(stub_files[p].data) =
                   [raised |-> FALSE, value |-> last_computed[p].value]
    /\ (pc = "returned" /\ ReadPath) =>
          /\ last_computed[stub_path].set
          /\ ret = last_computed[stub_path].value

C4_witness ==
    /\ pc = "returned" /\ ReadPath
    /\ Len(ret) = 2 /\ Len(ret[2]) = 1
    /\ Len(frames) = 1

\* C5: after every call that returns with a stub_path set, the stub at that path
\* holds the sequence the call returned (a computing call has overwritten it).
C5_theorem ==
    (pc = "returned" /\ stub_path # NoPath) =>
       /\ stub_files[stub_path].exists
       /\ pickle_load(stub_files[stub_path].data) = [raised |-> FALSE, value |-> ret]

C5_witness ==
    /\ pc = "returned" /\ ~read_from_stub /\ stub_path # NoPath
    /\ Len(ret) = 1 /\ Len(frames) = 1
    /\ stub_files[stub_path].data = pickle_dump(<<PersonsOf(FrameBallAndPlayer)>>)

\* C9 as stated: every call off the stub-read path invokes detect_frame once per
\* frame, in increasing order, and writes the stub only after the last invocation.
C9_original ==
    [][~ReadPath' =>
          /\ pc' \in {"returned", "raised"} => invoked' = UpTo(Len(frames'))
          /\ stub_files' # stub_files => invoked = UpTo(Len(frames))]_vars

\* C9 amended: a call off the stub-read path that returns has invoked detect_frame
\* once per frame, in increasing order; the stub is written only after the last
\* invocation; a call ended by an error of detect_frame has invoked it on the
\* frames up to the failing one, in order, and has written no stub.
C9_theorem ==
    [][~ReadPath' =>
          /\ pc' = "returned" => invoked' = UpTo(Len(frames'))
          /\ pc' = "raised" =>
                /\ \E k \in 1..Len(frames') : invoked' = UpTo(k)
                /\ stub_files' = stub_files
          /\ pc' = "loop" => invoked' = UpTo(frame_iter')
          /\ stub_files' # stub_files => invoked = UpTo(Len(frames))]_vars

C9_witness == pc = "returned" /\ ~ReadPath /\ invoked = <<1, 2>> /\ stub_path # NoPath

---------------------------------------------------------------------------
(* detect_frame on its own: one call on the boxes the model reports *)

batchIdle ==
    /\ frames = <<>>
    /\ read_from_stub = FALSE
    /\ stub_path = NoPath
    /\ frame_iter = 0
    /\ invoked = <<>>
    /\ stub_files = [p \in StubPaths |-> Absent]
    /\ last_computed = [p \in StubPaths |-> NotComputed]

InitDetect ==
    /\ op = "detect_frame"
    /\ pc = "start"
    /\ results \in ModelOutputs
    /\ ret = <<>>
    /\ player_detections = <<>>
    /\ court_keypoints = <<>>
    /\ player_detections_dict = <<>>
    /\ chosen_players = <<>>
    /\ batchIdle

\* lines 28-39
detect_frame_call ==
    /\ op = "detect_frame"
    /\ pc = "start"
    /\ LET player_dict == detect_frame(results)
       IN  /\ pc' = IF player_dict.raised THEN "raised" ELSE "returned"
           /\ ret' = player_dict.value
    /\ UNCHANGED <<op, frames, read_from_stub, stub_path, player_detections, frame_iter,
                   invoked, stub_files, last_computed, results, court_keypoints,
                   player_detections_dict, chosen_players>>

NextDetect == detect_frame_call

SpecDetect == InitDetect /\ [][NextDetect]_vars

\* C10 as stated: the call ends in an error exactly when a person box has no track
\* identity; otherwise it returns the person boxes keyed by track identity (the
\* empty mapping when the frame has no person box).
C10_original ==
    (op = "detect_frame" /\ pc # "start") =>
       IF \E k \in 1..Len(results) : IsPerson(results[k]) /\ results[k].id = None
       THEN pc = "raised"
       ELSE pc = "returned" /\ ret = PersonsOf(results)

---------------------------------------------------------------------------
(* choose_players, choose_and_filter_players *)

\* Utils.bbox_utils: the midpoint of the box
get_center_of_bbox(bbox) == <<(bbox[1] + bbox[3]) \div 2, (bbox[2] + bbox[4]) \div 2>>

\* Utils.bbox_utils: the Euclidean distance of two points, kept squared (the
\* square root is increasing, and distances are only compared); a point is the
\* first two elements of its argument
measure_distance(p1, p2) ==
    (p1[1] - p2[1]) * (p1[1] - p2[1]) + (p1[2] - p2[2]) * (p1[2] - p2[2])

\* float("inf") and finite distances
Inf == [inf |-> TRUE, d |-> 0]
Fin(x) == [inf |-> FALSE, d |-> x]
Less(a, b) == ~a.inf /\ (b.inf \/ a.d < b.d)

\* range(start, stop), 0-based
PyRange(start, stop) ==
    [k \in 1..(IF stop > start THEN stop - start ELSE 0) |-> start + k - 1]

\* lines 104-108: the loop over court_keypoints, for the indices in is (0-based)
RECURSIVE min_distance_loop(_, _, _, _)
min_distance_loop(kp, player_center, is, min_distance) ==
    IF is = <<>> THEN [raised |-> FALSE, value |-> min_distance]
    ELSE LET i == Head(is)
         IN  IF i >= Len(kp) \/ i + 1 >= Len(kp) THEN Failed          \* IndexError
             ELSE LET distance == Fin(measure_distance(player_center, kp))
                  IN  min_distance_loop(kp, player_center, Tail(is),
                                        IF Less(distance, min_distance)
                                        THEN distance ELSE min_distance)

\* lines 100-109: the loop over the detection set, from entry k on
RECURSIVE distances_loop(_, _, _, _)
distances_loop(kp, dict, k, distances) ==
    IF k > Len(dict) THEN [raised |-> FALSE, value |-> distances]
    ELSE LET track_id == dict[k][1]
             player_center == get_center_of_bbox(dict[k][2])
             found == min_distance_loop(kp, player_center, PyRange(Len(kp), 2), Inf)
         IN  IF found.raised THEN Failed
             ELSE distances_loop(kp, dict, k + 1,
                                 Append(distances, <<track_id, found.value>>))

\* list.sort(key=lambda x: x[1]): stable
RECURSIVE insert_by_distance(_, _)
insert_by_distance(x, sorted) ==
    IF sorted = <<>> THEN <<x>>
    ELSE IF Less(Head(sorted)[2], x[2])
         THEN <<Head(sorted)>> \o insert_by_distance(x, Tail(sorted))
         ELSE <<x>> \o sorted

RECURSIVE sort_by_distance(_)
sort_by_distance(distances) ==
    IF distances = <<>> THEN <<>>
    ELSE insert_by_distance(Head(distances), sort_by_distance(Tail(distances)))

\* s[:n]
Slice(s, n) == SubSeq(s, 1, IF Len(s) < n THEN Len(s) ELSE n)

\* mutant of choose_players: the sorted list is returned whole
choose_players_unsliced(kp, dict) ==
    LET distances == distances_loop(kp, dict, 1, <<>>)
    IN  IF distances.raised THEN Failed
        ELSE LET sorted == sort_by_distance(distances.value)
             IN  [raised |-> FALSE, value |-> [k \in 1..Len(sorted) |-> sorted[k][1]]]

\* lines 100-112
choose_players(kp, dict) ==
    LET distances == distances_loop(kp, dict, 1, <<>>)
    IN  IF distances.raised THEN Failed
        ELSE LET sorted == Slice(sort_by_distance(distances.value), 2)
             IN  [raised |-> FALSE, value |-> [k \in 1..Len(sorted) |-> sorted[k][1]]]

\* line 129: the dict comprehension
RECURSIVE filter_dict(_, _)
filter_dict(player_dict, chosen) ==
    IF player_dict = <<>> THEN <<>>
    ELSE IF Head(player_dict)[1] \in Range(chosen)
         THEN <<Head(player_dict)>> \o filter_dict(Tail(player_dict), chosen)
         ELSE filter_dict(Tail(player_dict), chosen)

\* mutant of filter_frames: the players are chosen again in every frame
filter_frames_reselect(kp, detections, chosen) ==
    [i \in 1..Len(detections) |->
        filter_dict(detections[i], choose_players(kp, detections[i]).value)]

\* lines 127-131: the loop over the frames
filter_frames(kp, detections, chosen) ==
    [i \in 1..Len(detections) |-> filter_dict(detections[i], chosen)]

\* the detection sets of the inputs: every insertion order of every set of tracks
DetectionSets ==
    {d \in SeqsUpTo(TrackIds \X BBoxes, Cardinality(TrackIds)) : IsDict(d)}

\* in a clip, a track keeps one box
BoxOfTrack(t) == IF t = 1 THEN <<0, 0, 10, 10>> ELSE <<100, 100, 110, 110>>

ClipDetectionSets == {d \in DetectionSets : \A k \in 1..Len(d) : d[k][2] = BoxOfTrack(d[k][1])}

KeypointCoords == {0, 200}

InitSelect ==
    /\ pc = "start"
    /\ court_keypoints \in SeqsUpTo(KeypointCoords, MaxKeypoints)
    /\ \/ /\ op = "choose_players"
          /\ player_detections_dict \in DetectionSets
          /\ player_detections = <<>>
       \/ /\ op = "choose_and_filter_players"
          /\ player_detections_dict = <<>>
          /\ player_detections \in SeqsUpTo(ClipDetectionSets, MaxFrames)
    /\ chosen_players = <<>>
    /\ ret = <<>>
    /\ results = <<>>
    /\ batchIdle

\* lines 90-112
choose_players_call ==
    /\ op = "choose_players"
    /\ pc = "start"
    /\ LET chosen == choose_players(court_keypoints, player_detections_dict)
       IN  /\ pc' = IF chosen.raised THEN "raised" ELSE "returned"
           /\ ret' = chosen.value
    /\ UNCHANGED <<op, frames, read_from_stub, stub_path, player_detections, frame_iter,
                   invoked, stub_files, last_computed, results, court_keypoints,
                   player_detections_dict, chosen_players>>

\* lines 115-131
choose_and_filter_players ==
    /\ op = "choose_and_filter_players"
    /\ pc = "start"
    /\ IF Len(player_detections) = 0
       THEN /\ pc' = "raised"                                  \* IndexError, line 125
            /\ UNCHANGED <<chosen_players, ret>>
       ELSE LET player_detections_first_frame == player_detections[1]
                chosen == choose_players(court_keypoints, player_detections_first_frame)
            IN  IF chosen.raised
                THEN /\ pc' = "raised"
                     /\ UNCHANGED <<chosen_players, ret>>
                ELSE /\ pc' = "returned"
                     /\ chosen_players' = chosen.value
                     /\ ret' = filter_frames(court_keypoints, player_detections, chosen.value)
    /\ UNCHANGED <<op, frames, read_from_stub, stub_path, player_detections, frame_iter,
                   invoked, stub_files, last_computed, results, court_keypoints,
                   player_detections_dict>>

NextSelect ==
    \/ choose_players_call
    \/ choose_and_filter_players

SpecSelect == InitSelect /\ [][NextSelect]_vars

---------------------------------------------------------------------------
(* Properties of the selection *)

WellFormed(kp) == Len(kp) >= 2 /\ Len(kp) % 2 = 0

MinOf(S) == CHOOSE m \in S : \A x \in S : m <= x

\* the least distance from the center of the box to a keypoint (x, y)
Score(bbox, kp) ==
    MinOf({measure_distance(get_center_of_bbox(bbox), <<kp[2 * j - 1], kp[2 * j]>>) :
             j \in 1..(Len(kp) \div 2)})

\* how many entries of the detection set come before entry i: a smaller score,
\* or an equal score and an earlier insertion
Rank(kp, dict, i) ==
    Cardinality({j \in 1..Len(dict) :
                    \/ Score(dict[j][2], kp) < Score(dict[i][2], kp)
                    \/ Score(dict[j][2], kp) = Score(dict[i][2], kp) /\ j < i})

ClosestTwo(kp, dict) ==
    [n \in 1..(IF Len(dict) < 2 THEN Len(dict) ELSE 2) |->
        dict[CHOOSE i \in 1..Len(dict) : Rank(kp, dict, i) = n - 1][1]]

\* C1 as stated: with well-formed keypoints choose_players returns the two track
\* identities of least score, ascending by score, ties in insertion order.
C1_original ==
    (op = "choose_players" /\ pc # "start" /\ WellFormed(court_keypoints)) =>
       (pc = "returned" /\ ret = ClosestTwo(court_keypoints, player_detections_dict))

\* C7 as stated: keypoints of odd length, or too few for one point, make
\* choose_players end in an error for every non-empty detection set.
C7_original ==
    (/\ op = "choose_players" /\ pc # "start"
     /\ ~WellFormed(court_keypoints)
     /\ Len(player_detections_dict) > 0) => pc = "raised"

\* sel holds min(k, 2) distinct keys of a detection set of k entries
IsSelection(sel, dict) ==
    /\ Len(sel) = (IF Len(dict) < 2 THEN Len(dict) ELSE 2)
    /\ \A a, b \in 1..Len(sel) : sel[a] = sel[b] => a = b
    /\ Range(sel) \subseteq DictKeys(dict)

Selects ==
    /\ op = "choose_players" =>
          (pc = "returned" /\ IsSelection(ret, player_detections_dict))
    /\ op = "choose_and_filter_players" =>
          /\ pc = "returned"
          /\ IsSelection(chosen_players, player_detections[1])
          /\ Len(ret) = Len(player_detections)
          /\ \A i \in 1..Len(ret) : DictKeys(ret[i]) \subseteq Range(chosen_players)

FirstSet ==
    IF op = "choose_players" THEN player_detections_dict ELSE player_detections[1]

SelectDone ==
    /\ op \in {"choose_players", "choose_and_filter_players"}
    /\ pc # "start"
    /\ op = "choose_and_filter_players" => Len(player_detections) >= 1

\* C8 as stated: for a detection set of k entries, whatever the keypoints,
\* choose_players raises no error and returns min(k, 2) distinct keys of the set,
\* and choose_and_filter_players yields frames restricted to those keys.
C8_original == SelectDone => Selects

\* C8 amended: the same, for well-formed keypoints (even length, at least one
\* point) or an empty detection set.
C8_theorem ==
    (SelectDone /\ (WellFormed(court_keypoints) \/ Len(FirstSet) = 0)) => Selects

C8_witness ==
    /\ op = "choose_players" /\ pc = "returned"
    /\ WellFormed(court_keypoints)
    /\ Len(player_detections_dict) = 3 /\ Len(ret) = 2

====
